---- MODULE Spec2Model ----
\* Property_backend: the Express handlers of routes/properties.js and of the auth
\* router, over the Property and User collections. Every handler is split at its
\* awaits: between two awaits of one request, steps of other requests may run.
EXTENDS Integers, Sequences, FiniteSets, TLC

VARIABLES
    properties,  \* Property collection: _id -> document
    users,       \* User collection: _id -> document
    req,         \* requests in flight: slot -> [op, pc, args, doc]
    sent,        \* the response sent last, with its request: [op, args, doc, resp, err]
    started,     \* requests received so far; also the clock read by new Date()
    fetched,     \* property _id -> successful GET /:id responses sent for it
    tokens       \* credentials signed so far by jwt.sign

vars == <<properties, users, req, sent, started, fetched, tokens>>

\* ---------------------------------------------------------------- bounds
MaxSlots == 2
MaxOps == 3
MaxProps == 2
MaxUsers == 4
MaxTotal == 25
MaxPage == 3
MaxLimit == 12

Slots == 1..MaxSlots
PropIds == 1..MaxProps
UserIds == 1..MaxUsers

\* ---------------------------------------------------------------- constants of the code
DefaultPage == 1
DefaultLimit == 12
MongoDuplicateKey == 11000
Placeholder == "https://images.pexels.com/photos/106399/pexels-photo-106399.jpeg"

\* ---------------------------------------------------------------- helpers
NoId == 0
NoDoc == [id |-> NoId]
NoResp == [status |-> 0]
NoErr == 0
IdleReq == [op |-> "none", pc |-> "idle", args |-> [id |-> NoId], doc |-> NoDoc]
NoneSent == [op |-> "none", args |-> [id |-> NoId], doc |-> NoDoc, resp |-> NoResp, err |-> NoErr]

Min(a, b) == IF a < b THEN a ELSE b

\* Object.assign(target, source) / object spread: the source's fields win.
Assign(doc, body) ==
    [f \in (DOMAIN doc) \cup (DOMAIN body) |-> IF f \in DOMAIN body THEN body[f] ELSE doc[f]]

\* A destructured req.query / req.body field with its default.
Param(q, name, default) == IF name \in DOMAIN q THEN q[name] ELSE default
Has(q, name) == name \in DOMAIN q

\* A decimal string, as a sequence of digits, read by parseInt or by numeric coercion.
RECURSIVE DigitsValue(_)
DigitsValue(s) ==
    IF s = <<>> THEN 0 ELSE 10 * DigitsValue(SubSeq(s, 1, Len(s) - 1)) + s[Len(s)]

\* Math.ceil(total / limit) for total >= 0 and limit >= 1.
Ceil(total, limit) == (total + limit - 1) \div limit

\* A request is received on a free slot; each one advances the clock.
CanStart(r) == req[r].pc = "idle" /\ started < MaxOps

\* The handler of slot r suspends at an await, its locals kept in the slot.
Await(r, op, pc, args, doc) ==
    /\ req' = [req EXCEPT ![r] = [op |-> op, pc |-> pc, args |-> args, doc |-> doc]]
    /\ UNCHANGED sent

\* The handler of slot r sends its response and ends; err is the exception its
\* catch block caught, if any.
Reply(r, op, args, doc, resp, err) ==
    /\ req' = [req EXCEPT ![r] = IdleReq]
    /\ sent' = [op |-> op, args |-> args, doc |-> doc, resp |-> resp, err |-> err]

Json(status, message) == [status |-> status, success |-> status < 400, message |-> message]

\* ---------------------------------------------------------------- the Property collection
\* Error codes of the exceptions a handler's catch block sees.
MailError == 1
DocumentNotFound == 2

Lower(c) == IF c = "V" THEN "v" ELSE IF c = "A" THEN "a" ELSE c
LowerSeq(s) == [i \in 1..Len(s) |-> Lower(s[i])]

\* { $regex: pattern, $options: 'i' } for a pattern without metacharacters.
RegexI(pattern, text) ==
    \E i \in 0..(Len(text) - Len(pattern)) :
        SubSeq(LowerSeq(text), i + 1, i + Len(pattern)) = LowerSeq(pattern)

\* { $text: { $search: term } } over the text index of the schema, for a one-word term.
TextMatch(doc, term) == term \in doc.title

\* Schema defaults of a new Property document.
PropertyDefaults ==
    [views |-> 0, isApproved |-> FALSE, isActive |-> TRUE, ownerEmail |-> ""]

\* req.body of POST / and PUT /:id, as validateProperty lets it through.
FlatBody ==
    [type |-> "flat", bhk |-> "2BHK", status |-> "sale", price |-> 50,
     location |-> <<"V", "a">>, title |-> {"sea", "view"}, ownerEmail |-> "o@x"]
ShopBody ==
    [type |-> "shop", bhk |-> "1BHK", status |-> "rent", price |-> 20,
     location |-> <<"n", "v">>, title |-> {"shop"}, isApproved |-> FALSE, isActive |-> FALSE,
     image |-> "img"]
HiddenBody == Assign(FlatBody, [isApproved |-> FALSE, isActive |-> FALSE, price |-> 20])
CreateBodies == {FlatBody, ShopBody}
UpdateBodies == {FlatBody, HiddenBody}

\* req.query of GET /: every field is optional.
FlatQuery ==
    [type |-> "flat", bhk |-> "all", location |-> <<"v">>, sortBy |-> "price", sortOrder |-> "asc"]
Queries ==
    { FlatQuery,
      [type |-> "all", bhk |-> "1BHK", status |-> "rent", minPrice |-> <<1, 0>>, maxPrice |-> <<2, 0>>],
      [search |-> "sea", page |-> <<2>>, limit |-> <<1>>] }

\* The admin that adminAuth resolved the bearer credential to.
AdminAuth(uid) == uid \in DOMAIN users /\ users[uid].role = "admin"

BuildFilterMut(q) ==
    [isApproved |-> TRUE]
\* routes/properties.js 29-56: the filter object built from the query.
BuildFilter(q) ==
    LET base == [isApproved |-> TRUE, isActive |-> TRUE]
        f1 == IF Has(q, "location") THEN Assign(base, [location |-> q.location]) ELSE base
        f2 == IF Has(q, "type") /\ q.type # "all" THEN Assign(f1, [type |-> q.type]) ELSE f1
        f3 == IF Has(q, "bhk") /\ q.bhk # "all" THEN Assign(f2, [bhk |-> q.bhk]) ELSE f2
        f4 == IF Has(q, "status") THEN Assign(f3, [status |-> q.status]) ELSE f3
        f5 == IF Has(q, "minPrice") THEN Assign(f4, [gte |-> DigitsValue(q.minPrice)]) ELSE f4
        f6 == IF Has(q, "maxPrice") THEN Assign(f5, [lte |-> DigitsValue(q.maxPrice)]) ELSE f5
    IN  IF Has(q, "search") THEN Assign(f6, [text |-> q.search]) ELSE f6

\* Whether a stored document satisfies a filter object (the store's query match).
MatchFilter(doc, f) ==
    /\ Has(f, "isApproved") => doc.isApproved = f.isApproved
    /\ Has(f, "isActive") => doc.isActive = f.isActive
    /\ Has(f, "location") => RegexI(f.location, doc.location)
    /\ Has(f, "type") => doc.type = f.type
    /\ Has(f, "bhk") => doc.bhk = f.bhk
    /\ Has(f, "status") => doc.status = f.status
    /\ Has(f, "gte") => doc.price >= f.gte
    /\ Has(f, "lte") => doc.price <= f.lte
    /\ Has(f, "text") => TextMatch(doc, f.text)

Matching(f) == {properties[i] : i \in {j \in DOMAIN properties : MatchFilter(properties[j], f)}}

\* sort[sortBy] = sortOrder === 'desc' ? -1 : 1
SortDir(q) == IF Param(q, "sortOrder", "desc") = "desc" THEN -1 ELSE 1
SortBy(q) == Param(q, "sortBy", "createdAt")
InOrder(a, b, by, dir) == IF dir = 1 THEN a[by] <= b[by] ELSE a[by] >= b[by]

\* Every order the store may return a set of documents in under .sort(): documents
\* with equal keys come in an order the store chooses.
RECURSIVE SortedSeqs(_, _, _)
SortedSeqs(S, by, dir) ==
    IF S = {} THEN {<<>>}
    ELSE LET firsts == {d \in S : \A e \in S : InOrder(d, e, by, dir)}
         IN  UNION {{<<d>> \o t : t \in SortedSeqs(S \ {d}, by, dir)} : d \in firsts}

PageOf(q) == IF Has(q, "page") THEN DigitsValue(q.page) ELSE DefaultPage
LimitOf(q) == IF Has(q, "limit") THEN DigitsValue(q.limit) ELSE DefaultLimit

SkipCountMut(q) == PageOf(q) * LimitOf(q)
\* routes/properties.js 67: .skip((page - 1) * limit)
SkipCount(q) == (PageOf(q) - 1) * LimitOf(q)

\* .limit(n).skip(k) of a sorted cursor: k documents are passed over, then n returned.
SkipLimit(s, k, n) == SubSeq(s, k + 1, Min(Len(s), k + n))

\* routes/properties.js 77-83: the pagination object of the response.
Pagination(q, total) ==
    [currentPage |-> PageOf(q),
     totalPages |-> Ceil(total, LimitOf(q)),
     totalProperties |-> total,
     hasNext |-> PageOf(q) < Ceil(total, LimitOf(q)),
     hasPrev |-> PageOf(q) > 1]

\* GET /, up to the await of Property.find(...): the page of documents is read.
SearchFind(r, q) ==
    /\ CanStart(r)
    /\ started' = started + 1
    /\ \E s \in SortedSeqs(Matching(BuildFilter(q)), SortBy(q), SortDir(q)) :
          Await(r, "search", "search_count", [id |-> NoId, q |-> q],
                [id |-> NoId, page |-> SkipLimit(s, SkipCount(q), LimitOf(q))])
    /\ UNCHANGED <<properties, users, fetched, tokens>>

\* GET /, from the await of Property.countDocuments(filter) to res.json.
SearchCount(r) ==
    /\ req[r].pc = "search_count"
    /\ LET total == Cardinality(Matching(BuildFilter(req[r].args.q)))
       IN  Reply(r, "search", req[r].args, NoDoc,
                 [status |-> 200, success |-> TRUE, properties |-> req[r].doc.page,
                  pagination |-> Pagination(req[r].args.q, total)], NoErr)
    /\ UNCHANGED <<properties, users, started, fetched, tokens>>

Remove(f, k) == [i \in (DOMAIN f) \ {k} |-> f[i]]
Put(f, k, v) == [i \in (DOMAIN f) \cup {k} |-> IF i = k THEN v ELSE f[i]]

\* The fields of an in-memory document that differ from the document as loaded:
\* the modified paths that document.save() writes with $set.
Modified(loaded, doc) == [f \in {g \in DOMAIN doc : g \notin DOMAIN loaded \/ loaded[g] # doc[g]} |-> doc[f]]

\* routes/properties.js 104-109 and 111-116: the two 404 responses of GET /:id.
GetNotFound == Json(404, "Property not found")
GetNotAvailableMut == Json(404, "Property not found")
GetNotAvailable == Json(404, "Property not available")

\* routes/properties.js 111: !property.isApproved || !property.isActive
GetOneHidden(doc) == ~doc.isApproved \/ ~doc.isActive

\* routes/properties.js 101-116: what GET /:id answers before it counts the view;
\* NoResp when it goes on to count it.
GetOneAnswer(store, id) ==
    IF id \notin DOMAIN store THEN GetNotFound
    ELSE IF GetOneHidden(store[id]) THEN GetNotAvailable
    ELSE NoResp

\* GET /:id, up to the await of Property.findById and the two 404 returns.
GetOneFind(r, id) ==
    /\ CanStart(r)
    /\ started' = started + 1
    /\ IF GetOneAnswer(properties, id) # NoResp
       THEN Reply(r, "getOne", [id |-> id],
                  IF id \in DOMAIN properties THEN properties[id] ELSE NoDoc,
                  GetOneAnswer(properties, id), NoErr)
       ELSE Await(r, "getOne", "get_save", [id |-> id], properties[id])
    /\ UNCHANGED <<properties, users, fetched, tokens>>

\* GET /:id, property.views += 1 on the loaded document, then the await of
\* property.save() (which writes $set views) and res.json; save() throws when the
\* document is gone.
GetOneSave(r) ==
    /\ req[r].pc = "get_save"
    /\ LET id == req[r].args.id
           doc == [req[r].doc EXCEPT !.views = @ + 1]
       IN  IF id \in DOMAIN properties
           THEN /\ properties' = [properties EXCEPT ![id] = Assign(@, Modified(req[r].doc, doc))]
                /\ fetched' = [fetched EXCEPT ![id] = @ + 1]
                /\ Reply(r, "getOne", req[r].args, req[r].doc,
                         [status |-> 200, success |-> TRUE, property |-> doc], NoErr)
           ELSE /\ Reply(r, "getOne", req[r].args, req[r].doc,
                         Json(500, "Server error while fetching property"), DocumentNotFound)
                /\ UNCHANGED <<properties, fetched>>
    /\ UNCHANGED <<users, started, tokens>>

NextPropId == Cardinality(DOMAIN fetched) + 1

\* routes/properties.js 141-147: propertyData, over the schema defaults.
CreateData(body, uid) ==
    Assign(Assign(PropertyDefaults, body),
           [owner |-> uid, isApproved |-> TRUE, isActive |-> TRUE,
            images |-> <<Param(body, "image", Placeholder)>>])

\* POST /, up to the await of property.save(): the document is inserted.
CreateSave(r, uid, body) ==
    /\ CanStart(r)
    /\ AdminAuth(uid)
    /\ NextPropId <= MaxProps
    /\ started' = started + 1
    /\ LET id == NextPropId
           doc == Assign(CreateData(body, uid), [id |-> id, createdAt |-> started + 1])
       IN  /\ properties' = Put(properties, id, doc)
           /\ fetched' = Put(fetched, id, 0)
           /\ Await(r, "create", "create_mail", [id |-> id, body |-> body], doc)
    /\ UNCHANGED <<users, tokens>>

CreateRespondMut(doc, mailFailed) ==
    IF mailFailed THEN Json(500, "Server error while creating property listing")
    ELSE [status |-> 201, success |-> TRUE, property |-> doc]
\* routes/properties.js 164-173: the catch around the two sends, then the 201.
CreateRespond(doc, mailFailed) ==
    [status |-> 201, success |-> TRUE, property |-> doc]

\* POST /, the try block of the two notification sends and the response. ownerFails
\* and adminFails say whether sendPropertyListedEmail / sendAdminNotification throw.
CreateNotify(r, ownerFails, adminFails) ==
    /\ req[r].pc = "create_mail"
    /\ LET doc == req[r].doc
           failed == (doc.ownerEmail # "" /\ ownerFails) \/ adminFails
       IN  Reply(r, "create", req[r].args, doc, CreateRespond(doc, failed),
                 IF failed THEN MailError ELSE NoErr)
    /\ UNCHANGED <<properties, users, started, fetched, tokens>>

UpdatedDocMut(doc, body) == Assign(doc, body)
\* routes/properties.js 199-200: Object.assign(property, req.body); isApproved = true.
UpdatedDoc(doc, body) == [Assign(doc, body) EXCEPT !.isApproved = TRUE]

\* PUT /:id, up to the await of Property.findById and the 404 return.
UpdateFind(r, uid, id, body) ==
    /\ CanStart(r)
    /\ AdminAuth(uid)
    /\ started' = started + 1
    /\ IF id \notin DOMAIN properties
       THEN Reply(r, "update", [id |-> id, body |-> body], NoDoc, Json(404, "Property not found"), NoErr)
       ELSE Await(r, "update", "update_save", [id |-> id, body |-> body], properties[id])
    /\ UNCHANGED <<properties, users, fetched, tokens>>

\* PUT /:id, the assignment, the await of property.save() and res.json. save()
\* writes the modified paths, isApproved among them when the body named it, and
\* throws when the document is gone.
UpdateSave(r) ==
    /\ req[r].pc = "update_save"
    /\ LET id == req[r].args.id
           doc == UpdatedDoc(req[r].doc, req[r].args.body)
           written == Assign(Modified(req[r].doc, doc),
                             IF Has(req[r].args.body, "isApproved")
                             THEN [isApproved |-> doc.isApproved] ELSE [x \in {} |-> 0])
       IN  IF id \in DOMAIN properties
           THEN /\ properties' = [properties EXCEPT ![id] = Assign(@, written)]
                /\ Reply(r, "update", req[r].args, req[r].doc,
                         [status |-> 200, success |-> TRUE, property |-> doc], NoErr)
           ELSE /\ Reply(r, "update", req[r].args, req[r].doc,
                         Json(500, "Server error while updating property"), DocumentNotFound)
                /\ UNCHANGED properties
    /\ UNCHANGED <<users, started, fetched, tokens>>

\* DELETE /:id, up to the await of Property.findById and the 404 return.
DeleteFind(r, uid, id) ==
    /\ CanStart(r)
    /\ AdminAuth(uid)
    /\ started' = started + 1
    /\ IF id \notin DOMAIN properties
       THEN Reply(r, "delete", [id |-> id], NoDoc, Json(404, "Property not found"), NoErr)
       ELSE Await(r, "delete", "delete_remove", [id |-> id], NoDoc)
    /\ UNCHANGED <<properties, users, fetched, tokens>>

\* DELETE /:id, the await of Property.findByIdAndDelete and res.json.
DeleteRemove(r) ==
    /\ req[r].pc = "delete_remove"
    /\ properties' = Remove(properties, req[r].args.id)
    /\ Reply(r, "delete", req[r].args, NoDoc, Json(200, "Property deleted successfully"), NoErr)
    /\ UNCHANGED <<users, started, fetched, tokens>>

\* ---------------------------------------------------------------- the User collection
NoEmail == ""
AdminPhone == "2222222222"
AdminPassword == "smitaa"

\* bcrypt: the stored form of a password, and its verification.
Hash(pw) == <<"bcrypt", pw>>
ComparePassword(candidate, stored) == Hash(candidate) = stored

\* createAdmin.js 47-53: the seeded admin record.
SeedAdmin(active) ==
    [id |-> 1, name |-> "Super Admin", email |-> NoEmail, phone |-> AdminPhone,
     password |-> Hash(AdminPassword), role |-> "admin", isActive |-> active, lastLogin |-> 0]

\* Schema defaults of a new User document.
UserDefaults == [role |-> "user", isActive |-> TRUE, lastLogin |-> 0]

\* req.body of POST /register, as validateUserRegistration lets it through.
RegisterBodies ==
    { [name |-> "a", phone |-> "p1", password |-> "pw1", email |-> "e1"],
      [name |-> "b", phone |-> "p1", password |-> "pw2"],
      [name |-> "c", phone |-> "p2", password |-> "pw1", email |-> "e1"],
      [name |-> "d", phone |-> AdminPhone, password |-> "pw2"] }
\* req.body of POST /login and POST /admin/login.
LoginBodies ==
    { [phone |-> AdminPhone, password |-> AdminPassword],
      [phone |-> AdminPhone, password |-> "pw1"],
      [phone |-> "p1", password |-> "pw1"],
      [phone |-> "p1", password |-> "pw2"] }
\* req.body of PUT /profile.
ProfileBodies ==
    { [name |-> "z"], [phone |-> AdminPhone], [name |-> "z", phone |-> "p2"] }

FindByPhone(phone) == {u \in DOMAIN users : users[u].phone = phone}
FindByEmail(email) == {u \in DOMAIN users : users[u].email = email}

\* The unique indexes on phone and on email (where one is present): whether writing
\* these fields to document id is rejected with E11000.
DuplicateKey(id, fields) ==
    \E u \in (DOMAIN users) \ {id} :
        \/ Has(fields, "phone") /\ users[u].phone = fields.phone
        \/ Has(fields, "email") /\ fields.email # NoEmail /\ users[u].email = fields.email

NextUserId == Cardinality(DOMAIN users) + 1

RegisterCatchMut(code) ==
    Json(500, "Server error during registration")
\* auth router 78-92: the catch of POST /register.
RegisterCatch(code) ==
    IF code = MongoDuplicateKey
    THEN Json(400, "Phone number or email is already registered")
    ELSE Json(500, "Server error during registration")

\* auth router 269-275: the catch of PUT /profile.
ProfileCatch(code) == Json(500, "Server error while updating profile")

\* POST /register, up to the await of User.findOne({ phone }) and its 400 return.
RegisterFindPhone(r, body) ==
    /\ CanStart(r)
    /\ started' = started + 1
    /\ IF FindByPhone(body.phone) # {}
       THEN Reply(r, "register", [id |-> NoId, body |-> body], NoDoc,
                  Json(400, "User already exists with this phone number"), NoErr)
       ELSE Await(r, "register", IF Has(body, "email") THEN "reg_email" ELSE "reg_save",
                  [id |-> NoId, body |-> body], NoDoc)
    /\ UNCHANGED <<properties, users, fetched, tokens>>

\* POST /register, the await of User.findOne({ email }) and its 400 return.
RegisterFindEmail(r) ==
    /\ req[r].pc = "reg_email"
    /\ IF FindByEmail(req[r].args.body.email) # {}
       THEN Reply(r, "register", req[r].args, NoDoc,
                  Json(400, "User already exists with this email address"), NoErr)
       ELSE Await(r, "register", "reg_save", req[r].args, NoDoc)
    /\ UNCHANGED <<properties, users, started, fetched, tokens>>

\* auth router 63-76: the 201 of POST /register.
RegisterCreated(user, token) ==
    [status |-> 201, success |-> TRUE,
     user |-> [id |-> user.id, name |-> user.name, email |-> user.email, phone |-> user.phone],
     token |-> token]

\* POST /register, new User(...), the await of user.save() and jwt.sign; with no
\* email the 201 follows at once.
RegisterSave(r) ==
    /\ req[r].pc = "reg_save"
    /\ NextUserId <= MaxUsers
    /\ LET body == req[r].args.body
           user == Assign(UserDefaults,
                          [id |-> NextUserId, name |-> body.name, email |-> Param(body, "email", NoEmail),
                           phone |-> body.phone, password |-> Hash(body.password)])
       IN  IF DuplicateKey(user.id, user)
           THEN /\ Reply(r, "register", req[r].args, NoDoc, RegisterCatch(MongoDuplicateKey),
                         MongoDuplicateKey)
                /\ UNCHANGED <<users, tokens>>
           ELSE /\ users' = Put(users, user.id, user)
                /\ tokens' = tokens \cup {[route |-> "register", userId |-> user.id]}
                /\ IF Has(body, "email")
                   THEN Await(r, "register", "reg_mail", req[r].args, user)
                   ELSE Reply(r, "register", req[r].args, user,
                              RegisterCreated(user, [userId |-> user.id]), NoErr)
    /\ UNCHANGED <<properties, started, fetched>>

\* auth router 55-76: the try around sendWelcomeEmail, then the 201.
RegisterRespond(user, mailFailed) == RegisterCreated(user, [userId |-> user.id])

\* POST /register, the await of sendWelcomeEmail (which throws when fails) and res.
RegisterWelcome(r, fails) ==
    /\ req[r].pc = "reg_mail"
    /\ Reply(r, "register", req[r].args, req[r].doc, RegisterRespond(req[r].doc, fails),
             IF fails THEN MailError ELSE NoErr)
    /\ UNCHANGED <<properties, users, started, fetched, tokens>>

\* auth router 104-109 and 112-117: the 401s of POST /login before the password check.
LoginInvalid == Json(401, "Invalid phone number or password")
LoginDeactivated == Json(401, "Account is deactivated. Please contact support.")
\* auth router 176-181 and 185-190: the 401 of POST /admin/login.
AdminInvalid == Json(401, "Invalid admin credentials")

LoginWrongPasswordMut == Json(401, "Incorrect password")
\* auth router 121-126: the 401 of a failed password verification.
LoginWrongPassword == Json(401, "Invalid phone number or password")

\* auth router 139-154 and 203-218: the 200 of the two logins.
LoggedIn(user, token, message) ==
    [status |-> 200, success |-> TRUE, message |-> message,
     user |-> [id |-> user.id, name |-> user.name, email |-> user.email, role |-> user.role,
               phone |-> user.phone, lastLogin |-> user.lastLogin],
     token |-> token]

\* The one user a findOne({ phone }) returns; phone is unique.
OneByPhone(phone) == CHOOSE u \in FindByPhone(phone) : TRUE

\* POST /login, the await of User.findOne, the isActive check and the await of
\* comparePassword (which reads the loaded document only), with their 401 returns.
LoginFind(r, body) ==
    /\ CanStart(r)
    /\ started' = started + 1
    /\ LET args == [id |-> NoId, body |-> body]
       IN  IF FindByPhone(body.phone) = {}
           THEN Reply(r, "login", args, NoDoc, LoginInvalid, NoErr)
           ELSE LET user == users[OneByPhone(body.phone)]
                IN  IF ~user.isActive
                    THEN Reply(r, "login", args, user, LoginDeactivated, NoErr)
                    ELSE IF ~ComparePassword(body.password, user.password)
                    THEN Reply(r, "login", args, user, LoginWrongPassword, NoErr)
                    ELSE Await(r, "login", "login_save", args, user)
    /\ UNCHANGED <<properties, users, fetched, tokens>>

\* POST /login, user.lastLogin = new Date(), the await of user.save(), jwt.sign, res.
LoginSave(r) ==
    /\ req[r].pc = "login_save"
    /\ LET user == [req[r].doc EXCEPT !.lastLogin = started]
       IN  /\ users' = [users EXCEPT ![user.id] = Assign(@, Modified(req[r].doc, user))]
           /\ tokens' = tokens \cup {[route |-> "login", userId |-> user.id]}
           /\ Reply(r, "login", req[r].args, req[r].doc,
                    LoggedIn(user, [userId |-> user.id], "Login successful! Welcome back."), NoErr)
    /\ UNCHANGED <<properties, started, fetched>>

\* POST /admin/login, the await of User.findOne, the role check and the await of
\* comparePassword, with their 401 returns.
AdminLoginFind(r, body) ==
    /\ CanStart(r)
    /\ started' = started + 1
    /\ LET args == [id |-> NoId, body |-> body]
       IN  IF FindByPhone(body.phone) = {}
           THEN Reply(r, "adminLogin", args, NoDoc, AdminInvalid, NoErr)
           ELSE LET user == users[OneByPhone(body.phone)]
                IN  IF user.role # "admin" \/ ~ComparePassword(body.password, user.password)
                    THEN Reply(r, "adminLogin", args, user, AdminInvalid, NoErr)
                    ELSE Await(r, "adminLogin", "admin_save", args, user)
    /\ UNCHANGED <<properties, users, fetched, tokens>>

\* POST /admin/login, user.lastLogin = new Date(), the await of user.save(), jwt.sign, res.
AdminLoginSave(r) ==
    /\ req[r].pc = "admin_save"
    /\ LET user == [req[r].doc EXCEPT !.lastLogin = started]
       IN  /\ users' = [users EXCEPT ![user.id] = Assign(@, Modified(req[r].doc, user))]
           /\ tokens' = tokens \cup {[route |-> "adminLogin", userId |-> user.id]}
           /\ Reply(r, "adminLogin", req[r].args, req[r].doc,
                    LoggedIn(user, [userId |-> user.id, role |-> user.role], "Admin login successful!"),
                    NoErr)
    /\ UNCHANGED <<properties, started, fetched>>

\* PUT /profile for the user that auth resolved the bearer credential to, up to the
\* await of User.findById.
ProfileFind(r, uid, body) ==
    /\ CanStart(r)
    /\ uid \in DOMAIN users
    /\ started' = started + 1
    /\ Await(r, "profile", "profile_save", [id |-> uid, body |-> body], users[uid])
    /\ UNCHANGED <<properties, users, fetched, tokens>>

\* PUT /profile, the two assignments, the await of user.save() and res.json, or the catch.
ProfileSave(r) ==
    /\ req[r].pc = "profile_save"
    /\ LET body == req[r].args.body
           user == Assign(req[r].doc, body)
           written == Modified(req[r].doc, user)
       IN  IF DuplicateKey(user.id, written)
           THEN /\ Reply(r, "profile", req[r].args, req[r].doc, ProfileCatch(MongoDuplicateKey),
                         MongoDuplicateKey)
                /\ UNCHANGED users
           ELSE /\ users' = [users EXCEPT ![user.id] = Assign(@, written)]
                /\ Reply(r, "profile", req[r].args, req[r].doc,
                         [status |-> 200, success |-> TRUE,
                          message |-> "Profile updated successfully", user |-> user], NoErr)
    /\ UNCHANGED <<properties, started, fetched, tokens>>

\* ---------------------------------------------------------------- specifications
EmptyStore == [i \in {} |-> NoDoc]

\* The server after start-up, over a database holding the admin that createAdmin.js
\* seeded and no listing.
Init ==
    /\ properties = EmptyStore
    /\ users = Put(EmptyStore, 1, SeedAdmin(TRUE))
    /\ req = [r \in Slots |-> IdleReq]
    /\ sent = NoneSent
    /\ started = 0
    /\ fetched = [i \in {} |-> 0]
    /\ tokens = {}

\* The routes that read or write one listing, for an admin session and anonymous readers.
NextListing ==
    \E r \in Slots :
        \/ \E id \in PropIds : GetOneFind(r, id)
        \/ GetOneSave(r)
        \/ \E uid \in UserIds, body \in CreateBodies : CreateSave(r, uid, body)
        \/ \E o, a \in BOOLEAN : CreateNotify(r, o, a)
        \/ \E uid \in UserIds, id \in PropIds, body \in UpdateBodies : UpdateFind(r, uid, id, body)
        \/ UpdateSave(r)
        \/ \E uid \in UserIds, id \in PropIds : DeleteFind(r, uid, id)
        \/ DeleteRemove(r)

SpecListing == Init /\ [][NextListing]_vars

\* All the listing routes: those, and the public search.
Next ==
    \/ NextListing
    \/ \E r \in Slots :
        \/ \E q \in Queries : SearchFind(r, q)
        \/ SearchCount(r)

Spec == Init /\ [][Next]_vars

\* The auth routes. The seeded admin's isActive flag is as the database holds it:
\* set by createAdmin.js, and cleared since or not.
InitAuth ==
    /\ properties = EmptyStore
    /\ \E active \in BOOLEAN : users = Put(EmptyStore, 1, SeedAdmin(active))
    /\ req = [r \in Slots |-> IdleReq]
    /\ sent = NoneSent
    /\ started = 0
    /\ fetched = [i \in {} |-> 0]
    /\ tokens = {}

NextRegister ==
    \E r \in Slots :
        \/ \E body \in RegisterBodies : RegisterFindPhone(r, body)
        \/ RegisterFindEmail(r)
        \/ RegisterSave(r)
        \/ \E fails \in BOOLEAN : RegisterWelcome(r, fails)

NextAuth ==
    \/ NextRegister
    \/ \E r \in Slots :
        \/ \E body \in LoginBodies : LoginFind(r, body)
        \/ LoginSave(r)
        \/ \E body \in LoginBodies : AdminLoginFind(r, body)
        \/ AdminLoginSave(r)
        \/ \E uid \in UserIds, body \in ProfileBodies : ProfileFind(r, uid, body)
        \/ ProfileSave(r)

SpecAuth == InitAuth /\ [][NextAuth]_vars

\* POST /register alone, from concurrent clients.
SpecRegister == InitAuth /\ [][NextRegister]_vars

\* The two routes that send notifications, one request at a time.
NextNotify ==
    \/ \E uid \in UserIds, body \in CreateBodies : CreateSave(1, uid, body)
    \/ \E o, a \in BOOLEAN : CreateNotify(1, o, a)
    \/ \E body \in RegisterBodies : RegisterFindPhone(1, body)
    \/ RegisterFindEmail(1)
    \/ RegisterSave(1)
    \/ \E fails \in BOOLEAN : RegisterWelcome(1, fails)

SpecNotify == Init /\ [][NextNotify]_vars

\* GET / as a function of the number of matching listings, the page and the limit:
\* a store of total visible listings, created in the order of their ids, and one
\* hidden listing.
Digits(n) == IF n < 10 THEN <<n>> ELSE <<n \div 10, n % 10>>
PageQuery(p, l) == [page |-> Digits(p), limit |-> Digits(l)]
PageQueries ==
    {[x \in {} |-> 0]} \cup {[page |-> Digits(p)] : p \in 1..MaxPage}
        \cup {PageQuery(p, l) : p \in 1..MaxPage, l \in 1..MaxLimit}
Listing(i, visible) ==
    Assign(CreateData(FlatBody, 1), [id |-> i, createdAt |-> i, isActive |-> visible])

InitPage ==
    /\ \E total \in 0..MaxTotal :
          properties = [i \in 1..(total + 1) |-> Listing(i, i <= total)]
    /\ users = Put(EmptyStore, 1, SeedAdmin(TRUE))
    /\ req = [r \in Slots |-> IdleReq]
    /\ sent = NoneSent
    /\ started = 0
    /\ fetched = [i \in {} |-> 0]
    /\ tokens = {}

\* One search per run: the response depends on the store and the query alone.
NextPage ==
    \/ sent = NoneSent /\ \E q \in PageQueries : SearchFind(1, q)
    \/ SearchCount(1)

SpecPage == InitPage /\ [][NextPage]_vars

\* ---------------------------------------------------------------- properties
\* A step in which a request of this route is received and answered at once, and
\* one in which it is received and suspends at the given await.
AnsweredAtOnce(op) == started' # started /\ req' = req /\ sent'.op = op
Suspended(r, pc) == started' # started /\ req[r].pc = "idle" /\ req'[r].pc = pc

\* C1: with no GET /:id between its read and its save, the stored view counter of
\* every listing equals the number of successful GET /:id responses sent for it
\* since its creation with views = 0: no increment is lost.
C1_NoLostView ==
    (\A r \in Slots : req[r].pc # "get_save")
        => \A id \in DOMAIN properties : properties[id].views = fetched[id]

C7_OnlyVisibleExposed ==
    /\ [][\A r \in Slots :
            /\ Suspended(r, "search_count") =>
                  \A i \in 1..Len(req'[r].doc.page) :
                      LET d == req'[r].doc.page[i]
                      IN  /\ d.id \in DOMAIN properties /\ properties[d.id] = d
                          /\ d.isApproved /\ d.isActive
            /\ Suspended(r, "get_save") =>
                  LET id == req'[r].args.id
                  IN  /\ id \in DOMAIN properties /\ req'[r].doc = properties[id]
                      /\ properties[id].isApproved /\ properties[id].isActive
         ]_vars
    /\ [](/\ (sent.op = "search" =>
                \A i \in 1..Len(sent.resp.properties) :
                    sent.resp.properties[i].isApproved /\ sent.resp.properties[i].isActive)
          /\ (sent.op = "getOne" /\ sent.resp.status = 200 =>
                sent.resp.property.isApproved /\ sent.resp.property.isActive))

\* C7 witness: a search for flats returned nothing although the store holds a
\* flat, made inactive by an update, that the rest of the query matches.
C7_Witness ==
    /\ sent.op = "search" /\ sent.args.q = FlatQuery /\ sent.resp.properties = <<>>
    /\ \E id \in DOMAIN properties :
          /\ ~properties[id].isActive /\ properties[id].isApproved
          /\ properties[id].type = "flat"
          /\ MatchFilter(properties[id], [type |-> "flat", location |-> <<"v">>])

\* C8: every stored listing has isApproved true; a created listing is stored
\* approved and active whatever the body said; a successful update returns the
\* loaded document with every body field applied verbatim except isApproved, which
\* is true.
C8_AlwaysApproved ==
    /\ \A id \in DOMAIN properties : properties[id].isApproved
    /\ \A r \in Slots : req[r].pc = "create_mail" =>
          /\ req[r].doc.isApproved /\ req[r].doc.isActive
          /\ \A f \in (DOMAIN req[r].args.body) \ {"isApproved", "isActive"} :
                req[r].doc[f] = req[r].args.body[f]
    /\ (sent.op = "update" /\ sent.resp.status = 200) =>
          /\ sent.resp.property.isApproved
          /\ \A f \in (DOMAIN sent.args.body) \ {"isApproved"} :
                sent.resp.property[f] = sent.args.body[f]
          /\ \A f \in (DOMAIN sent.doc) \ (DOMAIN sent.args.body) :
                sent.resp.property[f] = sent.doc[f]

\* C8 witness: an update whose body set isApproved and isActive to false succeeded,
\* and the stored listing is approved and inactive.
C8_Witness ==
    /\ sent.op = "update" /\ sent.resp.status = 200
    /\ sent.args.body = HiddenBody
    /\ HiddenBody.isApproved = FALSE /\ HiddenBody.isActive = FALSE
    /\ sent.args.id \in DOMAIN properties
    /\ properties[sent.args.id].isApproved /\ ~properties[sent.args.id].isActive

\* C9: a response sent after a notification threw is the 201 of its route: for
\* POST / it carries the created listing, which is in the store as created; for
\* POST /register it carries the user, who is in the store, and a signed credential.
C9_MailFailureIs201 ==
    sent.err = MailError =>
        /\ sent.resp.status = 201 /\ sent.resp.success
        /\ sent.op \in {"create", "register"}
        /\ sent.op = "create" =>
              /\ sent.args.id \in DOMAIN properties
              /\ properties[sent.args.id] = sent.resp.property
        /\ sent.op = "register" =>
              /\ sent.resp.user.id \in DOMAIN users
              /\ users[sent.resp.user.id].phone = sent.args.body.phone
              /\ sent.resp.token.userId = sent.resp.user.id
              /\ [route |-> "register", userId |-> sent.resp.user.id] \in tokens

\* C9 witness: a listing was created, a notification threw, and the 201 was sent.
C9_Witness ==
    /\ sent.err = MailError /\ sent.op = "create" /\ sent.resp.status = 201
    /\ sent.args.id \in DOMAIN properties

\* C10: over a store of T matching listings, for a page p and a limit L (or their
\* defaults 1 and 12), GET / returns positions (p-1)*L+1 .. min(p*L, T) of the
\* listings in descending creation order, with totalPages the ceiling of T/L,
\* totalProperties T, hasNext p < totalPages and hasPrev p > 1.
PageAsClaimed(resp, total, p, l) ==
    LET lo == (p - 1) * l + 1
        hi == IF p * l < total THEN p * l ELSE total
        n  == IF hi >= lo THEN hi - lo + 1 ELSE 0
        tp == resp.pagination.totalPages
    IN  /\ Len(resp.properties) = n
        /\ \A i \in 1..n : resp.properties[i].createdAt = total - (lo + i - 1) + 1
        /\ tp >= 0 /\ tp * l >= total /\ (tp - 1) * l < total
        /\ resp.pagination.totalProperties = total
        /\ resp.pagination.currentPage = p
        /\ resp.pagination.hasNext = (p < tp)
        /\ resp.pagination.hasPrev = (p > 1)

C10_Pagination ==
    sent.op = "search" =>
        LET total == Cardinality({id \in DOMAIN properties : properties[id].isActive})
            q == sent.args.q
        IN  /\ q = [x \in {} |-> 0] => PageAsClaimed(sent.resp, total, 1, 12)
            /\ \A p \in 1..MaxPage :
                  /\ q = [page |-> Digits(p)] => PageAsClaimed(sent.resp, total, p, 12)
                  /\ \A l \in 1..MaxLimit :
                        q = PageQuery(p, l) => PageAsClaimed(sent.resp, total, p, l)

\* C10 witness: 25 matching listings, limit 12, page 2: listings 13 to 24 of the
\* order, 3 pages, a next and a previous page.
C10_Witness ==
    /\ Cardinality({id \in DOMAIN properties : properties[id].isActive}) = 25
    /\ sent.op = "search" /\ sent.args.q = PageQuery(2, 12)
    /\ Len(sent.resp.properties) = 12
    /\ sent.resp.properties[1].createdAt = 13 /\ sent.resp.properties[12].createdAt = 2
    /\ sent.resp.pagination.totalPages = 3
    /\ sent.resp.pagination.hasNext /\ sent.resp.pagination.hasPrev

\* C3 as stated: POST /admin/login answers 200, and signs a credential, only for a
\* user who is an admin, is active and whose password verifies.
C3_AdminLoginNeedsActive ==
    /\ (sent.op = "adminLogin" /\ sent.resp.status = 200) =>
          /\ sent.doc.role = "admin" /\ sent.doc.isActive
          /\ sent.doc.password = Hash(sent.args.body.password)
    /\ \A t \in tokens : t.route = "adminLogin" =>
          users[t.userId].role = "admin" /\ users[t.userId].isActive

\* C4: POST /login answers at once, with a 401 that carries no credential and
\* leaves users and credentials as they were, exactly when no active user with a
\* verifying password has the phone. The answer for no user with the phone and for
\* an active user with a wrong password is the same "Invalid phone number or
\* password"; for an inactive user with the right password it is the deactivation
\* message.
C4_LoginFailures ==
    [][/\ AnsweredAtOnce("login") =>
            LET body == sent'.args.body
                found == FindByPhone(body.phone)
            IN  /\ sent'.resp.status = 401 /\ sent'.resp.success = FALSE
                /\ ~Has(sent'.resp, "token")
                /\ users' = users /\ tokens' = tokens
                /\ found = {} => sent'.resp.message = "Invalid phone number or password"
                /\ \A u \in found :
                      /\ (users[u].isActive /\ users[u].password # Hash(body.password))
                            => sent'.resp.message = "Invalid phone number or password"
                      /\ (~users[u].isActive /\ users[u].password = Hash(body.password))
                            => sent'.resp.message = "Account is deactivated. Please contact support."
                      /\ ~(users[u].isActive /\ users[u].password = Hash(body.password))
       /\ \A r \in Slots : Suspended(r, "login_save") =>
            \E u \in FindByPhone(req'[r].args.body.phone) :
                users[u].isActive /\ users[u].password = Hash(req'[r].args.body.password)
      ]_vars

\* C4 witness: a login with the phone of an active user and a wrong password was
\* answered with the generic message.
C4_Witness ==
    /\ sent.op = "login" /\ sent.resp.status = 401
    /\ sent.resp.message = "Invalid phone number or password"
    /\ sent.doc.id # NoId /\ sent.doc.isActive
    /\ sent.doc.phone = sent.args.body.phone
    /\ sent.doc.password # Hash(sent.args.body.password)

\* C5: under POST /register from concurrent clients no two users share a phone or
\* an email; every answer is a 201 with a credential for a user now in the store or
\* a 400 without one, a duplicate-key rejection included; and no two credentials
\* were signed for users with the same phone or the same email.
C5_RegisterUnique ==
    /\ \A u, v \in DOMAIN users : u # v =>
          /\ users[u].phone # users[v].phone
          /\ users[u].email # NoEmail => users[u].email # users[v].email
    /\ sent.op = "register" =>
          /\ sent.resp.status \in {201, 400}
          /\ sent.resp.status = 400 => ~Has(sent.resp, "token") /\ ~sent.resp.success
          /\ sent.resp.status = 201 =>
                /\ sent.resp.token.userId = sent.resp.user.id
                /\ sent.resp.user.id \in DOMAIN users
                /\ users[sent.resp.user.id].phone = sent.args.body.phone
          /\ sent.err = MongoDuplicateKey => sent.resp.status = 400
    /\ \A t1, t2 \in tokens : t1 # t2 =>
          /\ users[t1.userId].phone # users[t2.userId].phone
          /\ users[t1.userId].email # NoEmail => users[t1.userId].email # users[t2.userId].email

\* C5 witness: a registration passed the existence checks, lost the race to one
\* with the same phone, and was answered 400.
C5_Witness ==
    /\ sent.op = "register" /\ sent.err = MongoDuplicateKey /\ sent.resp.status = 400
    /\ \E u \in DOMAIN users : u # 1 /\ users[u].phone = sent.args.body.phone

\* C6 as stated: a response sent after the store rejected a write with a
\* duplicate-key violation is the 400 "already registered" conflict.
C6_DuplicateKeyIs400 ==
    sent.err = MongoDuplicateKey =>
        sent.resp = Json(400, "Phone number or email is already registered")

====
